---- MODULE Spec2Model ----
(***************************************************************************)
(* Online Mahalanobis outlier detector (class CoreMahalanobis) as a state  *)
(* machine.  The state is the detector object; the one operation is        *)
(* _get_preds(X), modelled whole by the action Process.                    *)
(* SpecConc runs the same method for two callers that share one detector, *)
(* one assignment to self per step (the class takes no lock).              *)
(*                                                                         *)
(* Numbers: the code computes in IEEE doubles; the model computes in exact *)
(* rationals <<num, den>> (den > 0, lowest terms).  np.sqrt, the one       *)
(* irrational operation, is rounded down to a multiple of 1/SqrtScale.     *)
(*                                                                         *)
(* Width: observations have one feature (p = X.shape[1] = 1), so vectors   *)
(* and matrices are scalars, and LAPACK's eigenvector of a 1x1 matrix is   *)
(* the constant 1.  A batch of another width is modelled by its width      *)
(* only (it fails on the shape check of matmul before any assignment).     *)
(***************************************************************************)
EXTENDS Integers, Sequences, FiniteSets, TLC

VARIABLES threshold, n_components, n_stdev, start_clip, max_n,
          clip, mean, C, n, score, prediction,
          rows, lastCall, inflight

config == <<threshold, n_components, n_stdev, start_clip, max_n>>
vars == <<threshold, n_components, n_stdev, start_clip, max_n,
          clip, mean, C, n, score, prediction, rows, lastCall, inflight>>

(* ---------------------------- bounds ----------------------------------- *)
MaxRows == 4
MaxBatch == 3
SqrtScale == 2
Vals == {0, 2, 3}
Widths == {1, 2}
Threads == {1, 2}
ConcMaxRows == 3

(* <<threshold, n_components, n_stdev, start_clip, max_n>>: the defaults of
   __init__ with the warm-up scaled to MaxRows, then one or two arguments
   varied, the values the documentation excludes included *)
Configs ==
    { <<2, 3, 1, 50, -1>>,
      <<0, 3, 1, 50, -1>>,
      <<2, 1, 1, 2, -1>>,
      <<2, 3, 3, 0, -1>>,
      <<2, 3, 1, 50, 1>>,
      <<2, 3, 1, 50, 2>>,
      <<2, 3, 1, 2, 2>>,
      <<2, 0, 1, 50, -1>>,
      <<2, 3, -1, 0, -1>>,
      <<2, 3, 0, 2, -1>>,
      <<2, 3, 1, -1, -1>>,
      <<2, 3, 1, 50, 0>> }

(* ------------------------ rational arithmetic -------------------------- *)
Abs(x) == IF x < 0 THEN -x ELSE x

Min(a, b) == IF a < b THEN a ELSE b

Max(a, b) == IF a > b THEN a ELSE b

RECURSIVE Gcd(_, _)
Gcd(a, b) == IF b = 0 THEN a ELSE Gcd(b, a % b)

Rat(a, b) ==
    LET s == IF b < 0 THEN -1 ELSE 1
        g == Gcd(Abs(a), Abs(b))
    IN  <<(s * a) \div g, (s * b) \div g>>

Zero == <<0, 1>>
One == <<1, 1>>
FromInt(k) == <<k, 1>>

RAdd(p, q) == Rat(p[1] * q[2] + q[1] * p[2], p[2] * q[2])
RSub(p, q) == Rat(p[1] * q[2] - q[1] * p[2], p[2] * q[2])
RMul(p, q) == Rat(p[1] * q[1], p[2] * q[2])
RDiv(p, q) == Rat(p[1] * q[2], p[2] * q[1])
RLt(p, q) == p[1] * q[2] < q[1] * p[2]
RLe(p, q) == p[1] * q[2] <= q[1] * p[2]
RAbs(p) == <<Abs(p[1]), p[2]>>
RMin(p, q) == IF RLt(q, p) THEN q ELSE p
RMax(p, q) == IF RLt(p, q) THEN q ELSE p
RSq(p) == RMul(p, p)

(* np.sqrt: the largest multiple of 1/SqrtScale whose square is <= q *)
Sqrt(q) ==
    LET t == q[1] * SqrtScale * SqrtScale
        k == CHOOSE k \in 0..(SqrtScale * (q[1] \div q[2] + 1)) :
                 /\ k * k * q[2] <= t
                 /\ (k + 1) * (k + 1) * q[2] > t
    IN  Rat(k, SqrtScale)

(* ------------------------------ values --------------------------------- *)
None == <<>>
IntZero == <<>>
NoErr == "none"

(* self.C as a number: the int 0 of __init__ acts as 0 in arithmetic *)
CVal(c) == IF c = IntZero THEN Zero ELSE c

RECURSIVE SumSeq(_, _)
SumSeq(s, k) == IF k = 0 THEN Zero ELSE RAdd(SumSeq(s, k - 1), s[k])

(* an array, element by element *)
RECURSIVE Elems(_, _)
Elems(f, k) == IF k = 0 THEN <<>> ELSE Append(Elems(f, k - 1), f[k])

Arr(f) == Elems(f, Len(f))

(* ------------------------- the detector object ------------------------- *)
State == [clip |-> clip, mean |-> mean, C |-> C, n |-> n,
          score |-> score, prediction |-> prediction]

(* the attributes as __init__ leaves them; score and prediction do not
   exist before the first call *)
ColdState == [clip |-> None, mean |-> Zero, C |-> IntZero, n |-> 0,
              score |-> <<>>, prediction |-> <<>>]

(* the cap left out: n = self.n *)
EffectiveN_Uncapped(st) == st.n

(* n = min(self.n, self.max_n) if self.max_n > 0 else self.n *)
EffectiveN(st) == IF max_n > 0 THEN Min(st.n, max_n) ELSE st.n

(* the rows of X as numbers *)
XR(X) == Arr([i \in 1..Len(X) |-> FromInt(X[i])])

(* self.n > self.start_clip *)
ClipActive(st) == st.n > start_clip

NpClip(x, lo, hi) == RMin(RMax(x, lo), hi)

(* the clip branch left out: Xclip = X *)
ClipX_Raw(st, X) == Arr([i \in 1..Len(X) |-> FromInt(X[i])])

(* Xclip = np.clip(X, self.clip[0], self.clip[1]) if clipping else X *)
ClipX(st, X) ==
    Arr([i \in 1..Len(X) |->
        IF ClipActive(st) THEN NpClip(FromInt(X[i]), st.clip[1], st.clip[2])
        ELSE FromInt(X[i])])

(* roll_partial_means[i] = Xclip.cumsum()[i] / (i+1) *)
RollPartialMeans(Xc) ==
    Arr([i \in 1..Len(Xc) |-> RDiv(SumSeq(Xc, i), FromInt(i))])

(* the coefficient one row off: (i+1)/(n+i+2) *)
NewMeans_OffByOne(st, rpm, nn) ==
    Arr([i \in 1..Len(rpm) |->
        RAdd(st.mean, RMul(Rat(i, nn + i + 1), RSub(rpm[i], st.mean)))])

(* new_means = self.mean + (i+1)/(n+i+1) * (roll_partial_means - self.mean) *)
NewMeans(st, rpm, nn) ==
    Arr([i \in 1..Len(rpm) |->
        RAdd(st.mean, RMul(Rat(i, nn + i), RSub(rpm[i], st.mean)))])

(* new_means_offset[0] = self.mean; new_means_offset[1:] = new_means[:-1] *)
NewMeansOffset(st, nm) ==
    Arr([i \in 1..Len(nm) |-> IF i = 1 THEN st.mean ELSE nm[i - 1]])

(* B[i] = (n+i)/(n+i+1) * (Xclip[i] - new_means_offset[i])^2 *)
MomentB(Xc, nmo, nn) ==
    Arr([i \in 1..Len(Xc) |->
        RMul(Rat(nn + i - 1, nn + i), RSq(RSub(Xc[i], nmo[i])))])

(* cov_batch = (n-1)/(n+max(1,nb-1))*self.C + 1/(n+max(1,nb-1))*B.sum() *)
CovBatch(st, B, nn) ==
    LET nb == Len(B)
        d  == nn + Max(1, nb - 1)
    IN  RAdd(RMul(Rat(nn - 1, d), CVal(st.C)),
             RMul(Rat(1, d), SumSeq(B, nb)))

(* eigh(cov_batch, eigvals=(p-n_components, p-1)) accepts the index range
   only when 1 <= min(self.n_components, p) *)
EighOk(w) == Min(n_components, w) >= 1

(* the basis taken from the covariance the object held before the call *)
EighArg_Pre(st, cb) == st.C

(* the matrix handed to eigh: cov_batch *)
EighArg(st, cb) == cb

(* the eigenvector LAPACK returns for a 1x1 matrix *)
Eigvects == One

(* np.matmul(v, eigvects) *)
Proj(v) == Arr([i \in 1..Len(v) |-> RMul(v[i], Eigvects)])

(* proj_cov: zeros while self.C is the int 0, else eigvects' C eigvects *)
ProjCov(st) ==
    IF st.C = IntZero THEN Zero ELSE RMul(Eigvects, RMul(st.C, Eigvects))

(* B of the inverse loop: 1/(n+i+1) * (proj_x_clip - proj_means)^2 *)
ProjB(pxc, pm, nn) ==
    Arr([i \in 1..Len(pxc) |->
        RMul(Rat(1, nn + i), RSq(RSub(pxc[i], pm[i])))])

EPSILON_DEN == 100000000

(* abs(det) > 1e-8 *)
GtEps(q) == Abs(q[1]) > q[2] \div EPSILON_DEN

RInv(q) == RDiv(One, q)

(* the rank-one update taken with the row's own increment b = B[i]
   in place of B[i-1] *)
LoopBody_OwnB(i, nn, B, acc) ==
    IF acc.c_inv = None
    THEN IF GtEps(acc.proj_cov)
         THEN [acc EXCEPT !.c_inv = RInv(acc.proj_cov),
                          !.all_C_inv[i + 1] = RInv(acc.proj_cov)]
         ELSE IF nn + i = 0
              THEN acc
              ELSE [acc EXCEPT !.proj_cov =
                       RAdd(RMul(Rat(nn + i - 1, nn + i), acc.proj_cov),
                            B[i + 1])]
    ELSE IF nn + i - 2 = 0
         THEN [acc EXCEPT !.err = "ZeroDivisionError"]
         ELSE LET c   == RMul(Rat(nn + i - 1, nn + i - 2), acc.all_C_inv[i])
                  BC1 == RMul(B[i + 1], c)
              IN  [acc EXCEPT !.c_inv = c,
                              !.all_C_inv[i + 1] =
                                  RSub(c, RMul(RInv(RAdd(One, BC1)),
                                               RMul(c, BC1)))]

(* the update without the (n+i-1)/(n+i-2) rescale of the previous inverse *)
LoopBody_NoRescale(i, nn, B, acc) ==
    IF acc.c_inv = None
    THEN IF GtEps(acc.proj_cov)
         THEN [acc EXCEPT !.c_inv = RInv(acc.proj_cov),
                          !.all_C_inv[i + 1] = RInv(acc.proj_cov)]
         ELSE IF nn + i = 0
              THEN acc
              ELSE [acc EXCEPT !.proj_cov =
                        RAdd(RMul(Rat(nn + i - 1, nn + i), acc.proj_cov),
                             B[i + 1])]
    ELSE IF nn + i - 2 = 0
         THEN [acc EXCEPT !.err = "ZeroDivisionError"]
         ELSE LET c   == acc.all_C_inv[i]
                  BC1 == RMul(B[i], c)
              IN  [acc EXCEPT !.c_inv = c,
                              !.all_C_inv[i + 1] =
                                  RSub(c, RMul(RInv(RAdd(One, BC1)),
                                               RMul(c, BC1)))]

(* the singular branch without the fold: proj_cov is left as it was *)
LoopBody_NoFold(i, nn, B, acc) ==
    IF acc.c_inv = None
    THEN IF GtEps(acc.proj_cov)
         THEN [acc EXCEPT !.c_inv = RInv(acc.proj_cov),
                          !.all_C_inv[i + 1] = RInv(acc.proj_cov)]
         ELSE acc
    ELSE IF nn + i - 2 = 0
         THEN [acc EXCEPT !.err = "ZeroDivisionError"]
         ELSE LET c   == RMul(Rat(nn + i - 1, nn + i - 2), acc.all_C_inv[i])
                  BC1 == RMul(B[i], c)
              IN  [acc EXCEPT !.c_inv = c,
                              !.all_C_inv[i + 1] =
                                  RSub(c, RMul(RInv(RAdd(One, BC1)),
                                               RMul(c, BC1)))]

(* one iteration of `for i, b in enumerate(B)`, i counted from 0 *)
LoopBody(i, nn, B, acc) ==
    IF acc.c_inv = None
    THEN IF GtEps(acc.proj_cov)
         THEN [acc EXCEPT !.c_inv = RInv(acc.proj_cov),
                          !.all_C_inv[i + 1] = RInv(acc.proj_cov)]
         ELSE IF nn + i = 0
              THEN acc
              ELSE [acc EXCEPT !.proj_cov =
                       RAdd(RMul(Rat(nn + i - 1, nn + i), acc.proj_cov),
                            B[i + 1])]
    ELSE IF nn + i - 2 = 0
         THEN [acc EXCEPT !.err = "ZeroDivisionError"]
         ELSE LET c   == RMul(Rat(nn + i - 1, nn + i - 2), acc.all_C_inv[i])
                  BC1 == RMul(B[i], c)
              IN  [acc EXCEPT !.c_inv = c,
                              !.all_C_inv[i + 1] =
                                  RSub(c, RMul(RInv(RAdd(One, BC1)),
                                               RMul(c, BC1)))]

RECURSIVE InverseLoop(_, _, _, _)
InverseLoop(i, nn, B, acc) ==
    IF i = Len(B) \/ acc.err # NoErr
    THEN acc
    ELSE InverseLoop(i + 1, nn, B, LoopBody(i, nn, B, acc))

(* all_C_inv allocated as ones instead of zeros *)
AllCInv_Ones(st, B, nn) ==
    InverseLoop(0, nn, B,
                [c_inv |-> None, proj_cov |-> ProjCov(st),
                 all_C_inv |-> Arr([i \in 1..Len(B) |-> One]),
                 err |-> NoErr])

(* np.zeros_like(B), c_inv = None, then the loop *)
AllCInv(st, B, nn) ==
    InverseLoop(0, nn, B,
                [c_inv |-> None, proj_cov |-> ProjCov(st),
                 all_C_inv |-> Arr([i \in 1..Len(B) |-> Zero]),
                 err |-> NoErr])

(* self.score[i] = x_diff[i] * all_C_inv[i] * x_diff[i],
   x_diff = proj_x - proj_means *)
Score(px, pm, all) ==
    Arr([i \in 1..Len(px) |->
        RMul(RSub(px[i], pm[i]), RMul(all[i], RSub(px[i], pm[i])))])

(* the comparison made non-strict: s >= self.threshold *)
Prediction_NonStrict(sc) ==
    Arr([i \in 1..Len(sc) |->
        IF RLe(FromInt(threshold), sc[i]) THEN 1 ELSE 0])

(* self.prediction = [1 if s > self.threshold else 0 for s in self.score] *)
Prediction(sc) ==
    Arr([i \in 1..Len(sc) |->
        IF RLt(FromInt(threshold), sc[i]) THEN 1 ELSE 0])

(* [self.mean - self.n_stdev*stdev, self.mean + self.n_stdev*stdev] *)
NewClip(m, cov) ==
    LET stdev == Sqrt(cov)
    IN  <<RSub(m, RMul(FromInt(n_stdev), stdev)),
          RAdd(m, RMul(FromInt(n_stdev), stdev))>>

(* the stored count held at the cap: self.n = min(self.n + nb, max_n) *)
Commit_CappedCount(st, nm, cb, sc) ==
    LET nb == Len(nm)
    IN  [clip |-> IF st.n + nb > start_clip
                  THEN NewClip(nm[nb], cb) ELSE st.clip,
         mean |-> nm[nb],
         C |-> cb,
         n |-> IF max_n > 0 THEN Min(st.n + nb, max_n) ELSE st.n + nb,
         score |-> sc,
         prediction |-> Prediction(sc)]

(* the assignments to self at the end of _get_preds *)
Commit(st, nm, cb, sc) ==
    LET nb == Len(nm)
    IN  [clip |-> IF st.n + nb > start_clip
                  THEN NewClip(nm[nb], cb) ELSE st.clip,
         mean |-> nm[nb],
         C |-> cb,
         n |-> st.n + nb,
         score |-> sc,
         prediction |-> Prediction(sc)]

(* self.n += nb moved ahead of the statements that can raise *)
Raise_CountFirst(st, X, e) ==
    [err |-> e, post |-> [st EXCEPT !.n = st.n + Len(X)],
     n_eff |-> IF max_n > 0 THEN Min(st.n, max_n) ELSE st.n, Xclip |-> <<>>,
     new_means_offset |-> <<>>, all_C_inv |-> <<>>, eigh_of |-> None,
     ret |-> <<>>]

(* an exception leaving _get_preds: every statement that can raise comes
   before the first assignment to self *)
Raise(st, X, e) ==
    [err |-> e, post |-> st, n_eff |-> EffectiveN(st), Xclip |-> <<>>,
     new_means_offset |-> <<>>, all_C_inv |-> <<>>, eigh_of |-> None,
     ret |-> <<>>]

(* _get_preds(X) on the object st; w = X.shape[1] *)
GetPreds(st, X, w) ==
    LET nn   == EffectiveN(st)
        Xc   == ClipX(st, X)
        nm   == NewMeans(st, RollPartialMeans(Xc), nn)
        nmo  == NewMeansOffset(st, nm)
        cb   == CovBatch(st, MomentB(Xc, nmo, nn), nn)
        pm   == Proj(nmo)
        lp   == AllCInv(st, ProjB(Proj(Xc), pm, nn), nn)
        sc   == Score(Proj(XR(X)), pm, lp.all_C_inv)
        post == Commit(st, nm, cb, sc)
    IN  IF ClipActive(st) /\ st.clip = None THEN Raise(st, X, "TypeError")
        ELSE IF Len(X) = 0 THEN Raise(st, X, "IndexError")
        ELSE IF ~EighOk(w) THEN Raise(st, X, "ValueError")
        ELSE IF w # 1 THEN Raise(st, X, "ValueError")
        ELSE IF lp.err # NoErr THEN Raise(st, X, lp.err)
        ELSE [err |-> NoErr, post |-> post, n_eff |-> nn, Xclip |-> Xc,
              new_means_offset |-> nmo, all_C_inv |-> lp.all_C_inv,
              eigh_of |-> EighArg(st, cb), ret |-> post.prediction]

(* ------------------------------ batches -------------------------------- *)
Batches == UNION {[1..k -> Vals] : k \in 0..MaxBatch}

(* a batch of two features per row, on a detector that has absorbed rows of
   one feature *)
WideBatch == <<0>>

(* ------------------------------ actions -------------------------------- *)
(* a caller that is not inside _get_preds *)
IdleCall ==
    [pc |-> "idle", pre |-> ColdState, X |-> <<>>,
     res |-> Raise(ColdState, <<>>, NoErr)]

(* CoreMahalanobis.__init__ stores its arguments unchecked *)
Init ==
    /\ \E c \in Configs :
          /\ threshold = c[1]
          /\ n_components = c[2]
          /\ n_stdev = c[3]
          /\ start_clip = c[4]
          /\ max_n = c[5]
    /\ clip = None
    /\ mean = Zero
    /\ C = IntZero
    /\ n = 0
    /\ score = <<>>
    /\ prediction = <<>>
    /\ rows = <<>>
    /\ lastCall = [pre |-> ColdState, X |-> <<>>, w |-> 1, called |-> FALSE,
                   res |-> Raise(ColdState, <<>>, NoErr)]
    /\ inflight = [t \in Threads |-> IdleCall]

Process(X, w) ==
    /\ n + Len(X) <= MaxRows
    /\ w # 1 => (n > 0 /\ X = WideBatch)
    /\ \E r \in {GetPreds(State, X, w)} :
           /\ clip' = r.post.clip
           /\ mean' = r.post.mean
           /\ C' = r.post.C
           /\ n' = r.post.n
           /\ score' = r.post.score
           /\ prediction' = r.post.prediction
           /\ rows' = IF r.err = NoErr THEN rows \o X ELSE rows
           /\ lastCall' = [pre |-> State, X |-> X, w |-> w, called |-> TRUE,
                           res |-> r]
    /\ UNCHANGED <<config, inflight>>

Next == \E X \in Batches, w \in Widths : Process(X, w)

Spec == Init /\ [][Next]_vars

(* ------- callers sharing one detector, one statement at a time --------- *)
(* the class takes no lock: a second caller may run between any two
   statements of _get_preds.  The statements up to the end of the inverse
   loop read self and assign only locals; they are one step here *)
InflightRows == Len(inflight[1].X) + Len(inflight[2].X)

(* caller t enters _get_preds(X) and runs up to the first assignment to
   self, or raises *)
Begin(t, X) ==
    /\ inflight[t].pc = "idle"
    /\ Len(rows) + InflightRows + Len(X) <= ConcMaxRows
    /\ \E r \in {GetPreds(State, X, 1)} :
           IF r.err = NoErr
           THEN /\ inflight' = [inflight EXCEPT ![t] =
                                    [pc |-> "mean", pre |-> State, X |-> X,
                                     res |-> r]]
                /\ UNCHANGED lastCall
           ELSE /\ lastCall' = [pre |-> State, X |-> X, w |-> 1,
                                called |-> TRUE, res |-> r]
                /\ UNCHANGED inflight
    /\ UNCHANGED <<config, clip, mean, C, n, score, prediction, rows>>

(* self.mean = new_means[-1] *)
CommitMean(t) ==
    /\ inflight[t].pc = "mean"
    /\ mean' = inflight[t].res.post.mean
    /\ inflight' = [inflight EXCEPT ![t].pc = "C"]
    /\ UNCHANGED <<config, clip, C, n, score, prediction, rows, lastCall>>

(* self.C = cov_batch *)
CommitC(t) ==
    /\ inflight[t].pc = "C"
    /\ C' = inflight[t].res.post.C
    /\ inflight' = [inflight EXCEPT ![t].pc = "n"]
    /\ UNCHANGED <<config, clip, mean, n, score, prediction, rows, lastCall>>

(* self.n += nb *)
CommitN(t) ==
    /\ inflight[t].pc = "n"
    /\ n' = n + Len(inflight[t].X)
    /\ inflight' = [inflight EXCEPT ![t].pc = "clip"]
    /\ UNCHANGED <<config, clip, mean, C, score, prediction, rows, lastCall>>

(* if self.n > self.start_clip: self.clip = [self.mean -+ n_stdev*stdev],
   stdev being the local taken from cov_batch *)
CommitClip(t) ==
    /\ inflight[t].pc = "clip"
    /\ clip' = IF n > start_clip
               THEN NewClip(mean, inflight[t].res.post.C)
               ELSE clip
    /\ inflight' = [inflight EXCEPT ![t].pc = "score"]
    /\ UNCHANGED <<config, mean, C, n, score, prediction, rows, lastCall>>

(* self.score, self.prediction and the return *)
Finish(t) ==
    /\ inflight[t].pc = "score"
    /\ score' = inflight[t].res.post.score
    /\ prediction' = Prediction(inflight[t].res.post.score)
    /\ rows' = rows \o inflight[t].X
    /\ lastCall' = [pre |-> inflight[t].pre, X |-> inflight[t].X, w |-> 1,
                    called |-> TRUE, res |-> inflight[t].res]
    /\ inflight' = [inflight EXCEPT ![t] = IdleCall]
    /\ UNCHANGED <<config, clip, mean, C, n>>

(* the shared detector is built with the defaults, without and with a
   cap; the warm-up is longer than the run, so that no caller takes np.sqrt
   of a covariance it found half written *)
ConcConfigs == { <<2, 3, 1, 50, -1>>, <<2, 3, 1, 50, 2>> }

ConcBatches == UNION {[1..k -> {0, 2}] : k \in 0..ConcMaxRows}

InitConc == Init /\ config \in ConcConfigs

NextConc ==
    \/ \E t \in Threads, X \in ConcBatches : Begin(t, X)
    \/ \E t \in Threads : CommitMean(t)
    \/ \E t \in Threads : CommitC(t)
    \/ \E t \in Threads : CommitN(t)
    \/ \E t \in Threads : CommitClip(t)
    \/ \E t \in Threads : Finish(t)

SpecConc == InitConc /\ [][NextConc]_vars

(* ===================== properties of the detector ====================== *)
ValidConfig ==
    /\ n_components >= 1
    /\ n_stdev > 0
    /\ start_clip >= 0
    /\ max_n = -1 \/ max_n > 0

Succeeded == lastCall.called /\ lastCall.res.err = NoErr

Failed == lastCall.called /\ lastCall.res.err # NoErr

(* no sample cap, and no call so far has clipped its batch *)
NoClipNoCap ==
    /\ max_n <= 0
    /\ lastCall.called => lastCall.pre.n <= start_clip

(* row-at-a-time moments of vals on top of (m, c0) weighted as N earlier
   rows: the running mean, and the sum S of the weighted squared deviations
   from the mean before each row *)
RECURSIVE RowAtATime(_, _, _, _, _)
RowAtATime(vals, i, N, m, S) ==
    IF i > Len(vals)
    THEN [m |-> m, S |-> S]
    ELSE RowAtATime(vals, i + 1, N,
                    RAdd(m, RDiv(RSub(vals[i], m), FromInt(N + i))),
                    RAdd(S, RMul(Rat(N + i - 1, N + i),
                                 RSq(RSub(vals[i], m)))))

ExpectedMean(pre, vals, N) == RowAtATime(vals, 1, N, pre.mean, Zero).m

ExpectedCov(pre, vals, N) ==
    LET d == N + Max(1, Len(vals) - 1)
    IN  RAdd(RMul(Rat(N - 1, d), CVal(pre.C)),
             RDiv(RowAtATime(vals, 1, N, pre.mean, Zero).S, FromInt(d)))

ArithMean(v) == RDiv(SumSeq(XR(v), Len(v)), FromInt(Len(v)))

RECURSIVE SumSqDev(_, _, _)
SumSqDev(v, k, m) ==
    IF k = 0 THEN Zero
    ELSE RAdd(SumSqDev(v, k - 1, m), RSq(RSub(FromInt(v[k]), m)))

(* sample covariance, divisor count - 1 *)
SampleCov(v) == RDiv(SumSqDev(v, Len(v), ArithMean(v)), FromInt(Len(v) - 1))

(* C1: every call with a non-empty batch returns one label (and stores one
   score) per input row; stated here for the configurations the
   documentation accepts and batches of the detector's own width *)
C1_OnePairPerRow ==
    (ValidConfig /\ lastCall.called /\ lastCall.w = 1 /\ Len(lastCall.X) > 0)
        => /\ Len(lastCall.res.ret) = Len(lastCall.X)
           /\ Len(score) = Len(lastCall.X)
           /\ prediction = lastCall.res.ret

(* C2: a row is labelled outlier (1) exactly when its score is strictly
   greater than the threshold; a score equal to the threshold gives 0 *)
C2_StrictThreshold ==
    Succeeded =>
        \A i \in 1..Len(lastCall.X) :
            /\ prediction[i] \in {0, 1}
            /\ (prediction[i] = 1) <=> RLt(FromInt(threshold), score[i])
            /\ score[i] = FromInt(threshold) => prediction[i] = 0

C2_Witness ==
    /\ Succeeded
    /\ threshold > 0
    /\ \E i \in 1..Len(lastCall.X) :
          score[i] = FromInt(threshold) /\ prediction[i] = 0

(* C3: at every call boundary clip is None exactly when n <= start_clip *)
C3_ClipNoneIffWarm == (clip = None) <=> (n <= start_clip)

(* C4: in a call that starts with n > start_clip the moments are updated
   from the rows clamped to the stored clip bounds while each score is
   taken from the raw row; in a call that starts with n <= start_clip the
   moments are updated from the raw rows *)
C4_ClampedMomentsRawScore ==
    Succeeded =>
        LET pre  == lastCall.pre
            X    == lastCall.X
            N    == lastCall.res.n_eff
            used == [i \in 1..Len(X) |->
                        IF pre.n > start_clip
                        THEN IF RLt(pre.clip[2], RMax(FromInt(X[i]), pre.clip[1]))
                             THEN pre.clip[2]
                             ELSE RMax(FromInt(X[i]), pre.clip[1])
                        ELSE FromInt(X[i])]
        IN  /\ lastCall.res.Xclip = used
            /\ mean = ExpectedMean(pre, used, N)
            /\ C = ExpectedCov(pre, used, N)
            /\ \A i \in 1..Len(X) :
                  score[i] =
                      RMul(RSq(RSub(FromInt(X[i]),
                                    lastCall.res.new_means_offset[i])),
                           lastCall.res.all_C_inv[i])

C4_Witness ==
    /\ Succeeded
    /\ lastCall.pre.n > start_clip
    /\ \E i \in 1..Len(lastCall.X) :
          /\ lastCall.res.Xclip[i] # FromInt(lastCall.X[i])
          /\ score[i] # Zero

(* C5: without clipping and without a cap the covariance does not depend
   on how the rows were split into batches: it is the covariance obtained
   by feeding all the rows as one batch to a fresh detector *)
C5_BatchingInvariant ==
    (ValidConfig /\ NoClipNoCap /\ n > 0)
        => C = GetPreds(ColdState, rows, 1).post.C

(* C6: without clipping and without a cap the mean is the arithmetic mean
   of all the rows absorbed so far *)
C6_MeanIsArithmeticMean ==
    (NoClipNoCap /\ n > 0) => (Len(rows) = n /\ mean = ArithMean(rows))

C6_Witness ==
    /\ NoClipNoCap
    /\ n >= 3
    /\ Len(lastCall.X) = 1
    /\ lastCall.pre.n = n - 1
    /\ \E i \in 1..n : FromInt(rows[i]) # mean

(* C7: without clipping and without a cap the covariance after every call
   is the sample covariance (divisor count - 1) of all the rows absorbed *)
C7_CovIsSampleCov ==
    (ValidConfig /\ NoClipNoCap /\ n >= 2) => C = SampleCov(rows)

(* C8: the n of the weighting formulas is min(self.n, max_n) when max_n is
   positive and self.n otherwise, and the moments after the call are those
   the formulas give for that n *)
C8_EffectiveN ==
    lastCall.called =>
        LET pre == lastCall.pre
            N   == IF max_n > 0 /\ max_n < pre.n THEN max_n ELSE pre.n
        IN  /\ lastCall.res.n_eff = N
            /\ Succeeded =>
                  /\ mean = ExpectedMean(pre, lastCall.res.Xclip, N)
                  /\ C = ExpectedCov(pre, lastCall.res.Xclip, N)

C8_Witness ==
    /\ Succeeded
    /\ max_n > 0
    /\ lastCall.pre.n > max_n
    /\ mean # lastCall.pre.mean

(* C9: a detector whose hyperparameters are invalid (n_components < 1,
   n_stdev <= 0, start_clip < 0, max_n set but not positive) is rejected at
   construction, so no call of _get_preds is ever made on one *)
C9_InvalidConfigRejected == ~ValidConfig => ~lastCall.called

(* C10: a call that raises leaves mean, C, n and clip as they were *)
C10_FailureLeavesState ==
    Failed =>
        /\ mean = lastCall.pre.mean
        /\ C = lastCall.pre.C
        /\ n = lastCall.pre.n
        /\ clip = lastCall.pre.clip

C10_Witness ==
    /\ Failed
    /\ lastCall.res.err = "ZeroDivisionError"
    /\ n > 0

(* C11: a call on a detector with n = 0 never clips its batch, whatever
   start_clip is, and does not fail on the missing clip bounds *)
C11_ColdNeverClips ==
    (lastCall.called /\ lastCall.pre.n = 0 /\ Len(lastCall.X) > 0)
        => /\ lastCall.res.err # "TypeError"
           /\ lastCall.res.err = NoErr
                 => lastCall.res.Xclip = XR(lastCall.X)

(* the increment of 1-based row r of the latest call in the projected
   covariance: (x_clip - mean before the row)^2 / (N + r), N the effective n *)
RowIncrement(r) ==
    RMul(Rat(1, lastCall.res.n_eff + r),
         RSq(RSub(lastCall.res.Xclip[r], lastCall.res.new_means_offset[r])))

(* the projected covariance before 1-based row r of the latest call: the
   pre-batch covariance updated by the rows before r, one row at a time,
   C <- ((m-1)/m) C + increment with m rows behind it (a single row has
   covariance 0) *)
RECURSIVE CovBeforeRow(_)
CovBeforeRow(r) ==
    IF r = 1
    THEN CVal(lastCall.pre.C)
    ELSE LET m == lastCall.res.n_eff + r - 2
         IN  IF m = 0
             THEN CovBeforeRow(r - 1)
             ELSE RAdd(RMul(Rat(m - 1, m), CovBeforeRow(r - 1)),
                       RowIncrement(r - 1))

(* C12: every row of a returning call that gets an inverse gets the direct
   inverse of the projected covariance of the observations before it *)
C12_InverseIsDirectInverse ==
    Succeeded =>
        \A r \in 1..Len(lastCall.X) :
            lastCall.res.all_C_inv[r] # Zero
                => /\ CovBeforeRow(r) # Zero
                   /\ RMul(lastCall.res.all_C_inv[r], CovBeforeRow(r)) = One

C12_Witness ==
    /\ Succeeded
    /\ \E r \in 2..Len(lastCall.X) :
          /\ lastCall.res.all_C_inv[r - 1] # Zero
          /\ lastCall.res.all_C_inv[r] # Zero
          /\ RowIncrement(r - 1) # Zero

(* C13: every step leaves n at least as large, a returning call adds
   exactly the batch length to n (the cap does not hold it back), the
   phase never moves back (n > 0 stays, n > start_clip stays) and clip,
   once set, is never None again *)
C13_CountOnlyGrows ==
    [][/\ n' >= n
       /\ (lastCall'.called /\ lastCall'.res.err = NoErr)
             => n' = n + Len(lastCall'.X)
       /\ n > 0 => n' > 0
       /\ n > start_clip => n' > start_clip
       /\ clip # None => clip' # None]_vars

C13_Witness ==
    /\ Succeeded
    /\ lastCall.pre.clip # None
    /\ clip # None
    /\ max_n > 0
    /\ lastCall.pre.n >= max_n
    /\ n = lastCall.pre.n + Len(lastCall.X)

(* no seed inverse exists at 1-based row r of the latest call and the
   running projected covariance is singular there *)
SingularAt(r) == \A j \in 1..r : ~GtEps(CovBeforeRow(j))

(* C14: a row at which no seed inverse exists and the running projected
   covariance has |det| <= 1e-8 raises nothing: it gets a zero inverse and
   score 0, its increment is folded in as ((n+i-1)/(n+i)) proj_cov + B_i
   (no fold when n+i = 0), and the next row seeds from the folded value
   when that is invertible *)
C14_SingularRowDeferred ==
    /\ Succeeded =>
          \A r \in 1..Len(lastCall.X) :
              SingularAt(r) =>
                  /\ lastCall.res.all_C_inv[r] = Zero
                  /\ score[r] = Zero
                  /\ (r < Len(lastCall.X) /\ GtEps(CovBeforeRow(r + 1)))
                        => lastCall.res.all_C_inv[r + 1]
                               = RDiv(One, CovBeforeRow(r + 1))
    /\ (Failed /\ lastCall.res.err = "ZeroDivisionError")
          => GtEps(CVal(lastCall.pre.C))

C14_Witness ==
    /\ Succeeded
    /\ lastCall.pre.n >= 1
    /\ Len(lastCall.X) >= 2
    /\ SingularAt(1)
    /\ lastCall.res.all_C_inv[1] = Zero
    /\ lastCall.res.all_C_inv[2] # Zero

(* C15: the stored covariance is positive semi-definite (for one feature:
   the variance is >= 0, so np.sqrt of the diagonal is defined) and the
   clip bounds are ordered, lower <= upper, with or without the memory cap *)
C15_CovPsdClipOrdered ==
    /\ C # IntZero => RLe(Zero, C)
    /\ clip # None => RLe(clip[1], clip[2])

(* the previous row's inverse, rescaled by (n+i-1)/(n+i-2), at 1-based row r *)
RescaledPrev(r) ==
    RMul(Rat(lastCall.res.n_eff + r - 2, lastCall.res.n_eff + r - 3),
         lastCall.res.all_C_inv[r - 1])

(* c - c.b.c / (1 + trace(b.c)) for one feature *)
RankOne(c, b) == RSub(c, RDiv(RMul(c, RMul(b, c)), RAdd(One, RMul(b, c))))

(* a seed inverse exists before 1-based row r of the latest call *)
SeededBefore(r) == r >= 2 /\ lastCall.res.all_C_inv[r - 1] # Zero

(* C16 as stated: every row after a seed inverse exists gets the rank-one
   update of the previous row's inverse, rescaled by (n+i-1)/(n+i-2), with
   the row's own outer-product increment B_i *)
C16_UpdateUsesOwnIncrement ==
    Succeeded =>
        \A r \in 1..Len(lastCall.X) :
            SeededBefore(r) =>
                lastCall.res.all_C_inv[r] = RankOne(RescaledPrev(r), RowIncrement(r))

(* C16 amended: every row after a seed inverse exists gets the rank-one
   update of the previous row's inverse, rescaled by (n+i-1)/(n+i-2), with
   the previous row's outer-product increment B_(i-1) *)
C16_UpdateUsesPreviousIncrement ==
    Succeeded =>
        \A r \in 1..Len(lastCall.X) :
            SeededBefore(r) =>
                lastCall.res.all_C_inv[r]
                    = RankOne(RescaledPrev(r), RowIncrement(r - 1))

C16_Witness ==
    /\ Succeeded
    /\ \E r \in 1..Len(lastCall.X) :
          /\ SeededBefore(r)
          /\ RowIncrement(r) # RowIncrement(r - 1)
          /\ lastCall.res.all_C_inv[r]
                 # RankOne(RescaledPrev(r), RowIncrement(r))

Shared(st) == <<st.mean, st.C, st.n, st.clip>>

(* C18: while a call is in flight the fields (mean, C, n, clip) are, to any
   observer, either all as the call found them or all as the call leaves
   them; and once every call has returned no batch's contribution is
   missing: n counts every absorbed row and, without clipping or cap, the
   mean is the mean of all of them *)
C18_AllOrNothing ==
    /\ \A t \in Threads :
          inflight[t].pc # "idle"
              => Shared(State) \in {Shared(inflight[t].pre),
                                    Shared(inflight[t].res.post)}
    /\ (\A t \in Threads : inflight[t].pc = "idle")
          => /\ n = Len(rows)
             /\ (max_n <= 0 /\ n > 0)
                   => mean = ArithMean(rows)

(* C19: with a configuration the documentation accepts (cap unset or any
   positive integer, 1 included) no call on a non-empty batch divides by
   zero: none of n+i+1, n+max(1,b-1), n+i and n+i-2 is zero where it is
   evaluated *)
C19_NoDivisionByZero ==
    (ValidConfig /\ lastCall.called /\ Len(lastCall.X) > 0)
        => lastCall.res.err # "ZeroDivisionError"

(* C20: the first two observations ever absorbed by a detector, in one
   batch or in two calls, get score 0 whatever their values, and with
   threshold >= 0 the label 0 *)
C20_FirstTwoScoreZero ==
    Succeeded =>
        \A i \in 1..Len(lastCall.X) :
            lastCall.pre.n + i <= 2
                => /\ score[i] = Zero
                   /\ lastCall.res.all_C_inv[i] = Zero
                   /\ threshold >= 0 => prediction[i] = 0

C20_Witness ==
    /\ Succeeded
    /\ threshold >= 0
    /\ lastCall.pre.n = 1
    /\ Len(lastCall.X) = 1
    /\ lastCall.X[1] # rows[1]
    /\ score[1] = Zero
    /\ prediction[1] = 0

====
